---------------------------- MODULE Spec2Model ----------------------------
(***************************************************************************)
(* A state-machine model of pyoracle_tui (src/pyoracle_tui.py and          *)
(* src/sqltui/oracle.py): the per-tab query widgets, the exclusive thread  *)
(* worker execute_query, the suspend() context manager used by the editor  *)
(* and spreadsheet actions, and the configuration reload.                  *)
(*                                                                         *)
(* Scheduling.  All handlers (on_button_pressed, actions, timer callbacks, *)
(* callbacks passed to call_from_thread) run one at a time on the UI loop. *)
(* execute_query is decorated @work(exclusive=True, thread=True): every    *)
(* call starts a new thread and marks the workers started earlier as       *)
(* cancelled.  A thread is not interrupted by that mark, and execute_query *)
(* never reads it, so a cancelled worker keeps running its body.           *)
(* An exception that leaves a handler, or leaves a worker that has not     *)
(* been cancelled, ends the application.                                   *)
(***************************************************************************)
EXTENDS Integers, Sequences, FiniteSets, TLC

\* ------------------------------------------------------------------ bounds

\* number of tabs in the configuration's [tab] table
NumTabs == 2

\* number of times execute_query may be started in one behaviour
MaxRuns == 2

\* number of hide timers that may be pending at once
MaxTimers == 2

Tabs == 1..NumTabs

Runs == 1..MaxRuns

\* editor contents / file contents
Texts == {"", "q1"}

\* marks a path at which no file exists
Absent == "<absent>"

\* ------------------------------------------------------------ configuration

\* the connection keys of the configuration the application was started with
ConnKeys == {"c1", "c2"}

\* the Select widget's value when nothing is selected
Blank == "<blank>"

\* no override given for a tab
NoOverride == <<"none", 0>>

\* the configurations load_config can return: the one the application was
\* started with, and an edited one in which connection c2 is gone and tab 1
\* overrides its results file and its query file
StartConfig ==
    [connections |-> {"c1", "c2"},
     sql_file |-> [t \in Tabs |-> NoOverride],
     results_file |-> [t \in Tabs |-> NoOverride]]

EditedConfig ==
    [connections |-> {"c1"},
     sql_file |-> [t \in Tabs |-> IF t = 1 THEN <<"/data/query.sql", t>> ELSE NoOverride],
     results_file |-> [t \in Tabs |-> IF t = 1 THEN <<"/data/results.csv", t>> ELSE NoOverride]]

Configs == {StartConfig, EditedConfig}

\* every query file the application can name
QueryPaths == {<<"/tmp/query.<t>.sql", t>> : t \in Tabs} \cup {<<"/data/query.sql", 1>>}

\* every results file the application can name: the tabs' own, and the one
\* path written in exec_oracle_query
ResultPaths ==
    {<<"/tmp/results.<t>.csv", t>> : t \in Tabs}
    \cup {<<"/data/results.csv", 1>>, <<"/tmp/results.csv", 0>>}

\* a results file that does not exist
NoFile == [exists |-> FALSE, lines |-> <<>>]

\* a DataTable without columns and rows
EmptyTable == [columns |-> <<>>, rows |-> <<>>]

\* ------------------------------------------------------------------ cursors

\* number of rows a query may produce
MaxRows == 2

\* the values a column of a row can hold
Values == {"x", "y"}

\* the column-name lists of cursor.description
ColumnLists == {<<"A">>, <<"A", "B">>, <<"A", "A">>}

\* the rows a query over the given columns can produce
RowsOver(columns) ==
    UNION {[1..n -> [1..Len(columns) -> Values]] : n \in 0..MaxRows}

\* what a query can yield: its column names and its rows in order
Cursors ==
    UNION {{[description |-> c, rows |-> r] : r \in RowsOver(c)} : c \in ColumnLists}

\* how the database answers: the connection fails, execute fails, the first
\* fetchmany fails, or all is well
DbOutcomes == {"connect_fails", "execute_fails", "fetch_fails", "ok"}

VARIABLES
    config,         \* SqlApp.config
    active,         \* TabbedContent.active (the tab index of the active pane)
    text,           \* text[t]: TextArea #query-text-t
    disabled,       \* disabled[t]: Button #query-execute-t .disabled
    table,          \* table[t]: DataTable #data-table-t
    selection,      \* Select #connection-selection .value
    message,        \* MessageWidget.message
    hidden,         \* MessageWidget has class "hidden"
    timers,         \* number of pending hideit timers
    files,          \* files[p]: contents of the file at path p, or Absent
    driver_mode,    \* "application" or "stopped" (the display driver)
    refreshed,      \* self.refresh() has been called since suspend was last entered
    ui_pc,          \* what the UI loop is inside of: "idle", "edit", "export"
    ui_fname,       \* action_edit's local fname
    ui_tab,         \* action_edit's local tab_index (its textarea)
    suspend_exit,   \* how the last suspend() block was left: "none", "returned", "raised"
    crashed,        \* "no", or the place an exception left the program from
    load_result,    \* how the last load_config of a reload ended: "none", "ok", "error"
    results,        \* results[p]: the results file at path p
    sink_tab,       \* the tab on whose behalf exec_oracle_query last ran
    sink_cursor,    \* the cursor exec_oracle_query last got from the database
    sink_result,    \* how exec_oracle_query last ended: "none" or one of DbOutcomes
    rt_tab,         \* the tab whose editor text is saved and loaded
    rt_text,        \* that editor's text, a sequence of code points
    rt_files,       \* rt_files[p]: the file at path p, as bytes
    rt_loaded,      \* what the tab activation put into the editor
    rt_pc,          \* "typed", then "saved", then "loaded"
    last_blur,      \* the last DescendantBlur handled: its editor's tab, the tab
                    \* active then, and the parity of the number of blurs handled
    nruns,          \* number of execute_query workers started
    pc,             \* pc[w]: position of worker w in execute_query
    pressed,        \* pressed[w]: tab of event.button in the press that started w
    cancelled,      \* cancelled[w]: worker w was cancelled by a later exclusive start
    tab_index,      \* execute_query's local tab_index
    sql,            \* execute_query's local sql
    conn_key,       \* execute_query's local conn_key
    outcome         \* outcome[w]: how worker w ended

uiVars == <<config, active, text, disabled, table, selection, message, hidden, timers>>
suspendVars == <<driver_mode, refreshed, ui_pc, ui_fname, ui_tab, suspend_exit>>
sinkVars == <<results, sink_tab, sink_cursor, sink_result>>
roundTripVars == <<rt_tab, rt_text, rt_files, rt_loaded, rt_pc>>
sysVars == <<files, suspendVars, crashed, load_result, sinkVars, roundTripVars, last_blur>>
workerVars == <<nruns, pc, pressed, cancelled, tab_index, sql, conn_key, outcome>>
vars == <<uiVars, sysVars, workerVars>>

\* ------------------------------------------------------------------ helpers

\* get_tab_index: the tab index of the pane that is active when it is called
get_tab_index == active

\* get_query_file: the tab's sql_file, else /tmp/query.<tab_index>.sql
get_query_file(cfg, t) ==
    IF cfg.sql_file[t] # NoOverride THEN cfg.sql_file[t] ELSE <<"/tmp/query.<t>.sql", t>>

\* get_results_file: the ACTIVE tab's results_file, else /tmp/results.<tab_index>.csv
get_results_file(cfg, act) ==
    IF cfg.results_file[act] # NoOverride
    THEN cfg.results_file[act]
    ELSE <<"/tmp/results.<t>.csv", act>>

\* toggle_button_state: flips the disabled flag of the ACTIVE tab's button
toggle_button_state(dis, act) == [dis EXCEPT ![act] = ~dis[act]]

\* clear_table: empties the ACTIVE tab's table
clear_table(tbl, act) == [tbl EXCEPT ![act] = EmptyTable]

\* the parameters exec_oracle_query declares
exec_oracle_query_params == {"host", "db_name", "user", "passwd", "sql", "port"}

\* the keyword arguments execute_query passes to exec_oracle_query
execute_query_kwargs == {"host", "db_name", "user", "passwd", "sql", "fname"}

\* the file exec_oracle_query writes
exec_oracle_query_fname == <<"/tmp/results.csv", 0>>

\* a call binds when every keyword names a parameter; otherwise Python raises
\* TypeError before the function body runs
CallBinds == execute_query_kwargs \subseteq exec_oracle_query_params

\* how the call of exec_oracle_query in execute_query can end
CallOutcomes == IF CallBinds THEN {"ok", "DatabaseError", "OSError"} ELSE {"TypeError"}

\* the application is running and the UI loop is free to run a handler
Running == crashed = "no"

UiIdle == Running /\ ui_pc = "idle"

\* workers whose thread has been started and has not ended
InFlight(w) == pc[w] \notin {"unborn", "done"}

\* -------------------------------------------------------------- initial state

\* the state after compose() and on_mount(): the first pane is active and
\* its activation has loaded tab 1's query file when one was left by an
\* earlier session; every button is enabled, every table empty, no connection
\* selected, the message widget hidden
AppInit ==
    /\ config = StartConfig
    /\ active = 1
    /\ \E old \in {Absent, "q1"} :
          /\ files = [p \in QueryPaths |-> IF p = <<"/tmp/query.<t>.sql", 1>> THEN old ELSE Absent]
          /\ text = [t \in Tabs |-> IF t = 1 /\ old # Absent THEN old ELSE ""]
    /\ disabled = [t \in Tabs |-> FALSE]
    /\ table = [t \in Tabs |-> EmptyTable]
    /\ selection = Blank
    /\ message = "Application started."
    /\ hidden = TRUE
    /\ timers = 0
    /\ driver_mode = "application"
    /\ refreshed = FALSE
    /\ load_result = "none"
    /\ results = [p \in ResultPaths |-> NoFile]
    /\ sink_tab = 0
    /\ sink_cursor = [description |-> <<"A">>, rows |-> <<>>]
    /\ sink_result = "none"
    /\ ui_pc = "idle"
    /\ ui_fname = NoOverride
    /\ ui_tab = 0
    /\ suspend_exit = "none"
    /\ crashed = "no"
    /\ nruns = 0
    /\ pc = [w \in Runs |-> "unborn"]
    /\ pressed = [w \in Runs |-> 0]
    /\ cancelled = [w \in Runs |-> FALSE]
    /\ tab_index = [w \in Runs |-> 0]
    /\ sql = [w \in Runs |-> ""]
    /\ conn_key = [w \in Runs |-> Blank]
    /\ outcome = [w \in Runs |-> "none"]

\* a file of bytes that does not exist
NoBytes == [exists |-> FALSE, bytes |-> <<>>]

\* no blur has been handled yet
NoBlur == [tab |-> 0, active |-> 0, parity |-> 0]

\* no text is being saved and loaded
Init ==
    /\ AppInit
    /\ rt_tab = 1
    /\ rt_text = <<>>
    /\ rt_files = [p \in QueryPaths |-> NoBytes]
    /\ rt_loaded = <<>>
    /\ rt_pc = "typed"
    /\ last_blur = NoBlur

\* ------------------------------------------------------- the execute button

\* on_button_pressed for an Execute button.  Only the active pane's button
\* can be pressed, and only while it is enabled.  The handler clears the
\* active tab's table, toggles the active tab's button and calls
\* execute_query, which cancels the workers started before (exclusive=True)
\* and starts a new thread.
Press ==
    /\ UiIdle
    /\ ~disabled[active]
    /\ nruns < MaxRuns
    /\ table' = clear_table(table, get_tab_index)
    /\ disabled' = toggle_button_state(disabled, get_tab_index)
    /\ nruns' = nruns + 1
    /\ pc' = [pc EXCEPT ![nruns + 1] = "start"]
    /\ pressed' = [pressed EXCEPT ![nruns + 1] = active]
    /\ cancelled' = [w \in Runs |-> cancelled[w] \/ InFlight(w)]
    /\ UNCHANGED <<config, active, text, selection, message, hidden, timers>>
    /\ UNCHANGED <<sysVars, tab_index, sql, conn_key, outcome>>

\* an exception leaves worker w: the thread ends; the application ends with
\* it unless the worker had been cancelled
WorkerRaises(w, error) ==
    /\ pc' = [pc EXCEPT ![w] = "done"]
    /\ outcome' = [outcome EXCEPT ![w] = error]
    /\ crashed' = IF cancelled[w] THEN crashed ELSE "worker"

\* execute_query, lines 152-158, in worker w's thread: reads the tab that is
\* active NOW, that tab's query text, and whether a connection is selected
W_Read(w) ==
    /\ Running
    /\ pc[w] = "start"
    /\ tab_index' = [tab_index EXCEPT ![w] = get_tab_index]
    /\ sql' = [sql EXCEPT ![w] = text[get_tab_index]]
    /\ pc' = [pc EXCEPT ![w] = IF selection = Blank THEN "toggle" ELSE "resolve"]
    /\ outcome' = [outcome EXCEPT ![w] = IF selection = Blank THEN "no_connection" ELSE "none"]
    /\ UNCHANGED <<uiVars, sysVars, nruns, pressed, cancelled, conn_key>>

\* execute_query, lines 159-165: looks the selected key up in the current
\* configuration; a key that is not there raises KeyError
W_Resolve(w) ==
    /\ Running
    /\ pc[w] = "resolve"
    /\ conn_key' = [conn_key EXCEPT ![w] = selection]
    /\ IF selection \in config.connections
       THEN /\ pc' = [pc EXCEPT ![w] = "call"]
            /\ UNCHANGED <<outcome, crashed>>
       ELSE WorkerRaises(w, "KeyError")
    /\ UNCHANGED <<uiVars, files, suspendVars, load_result, sinkVars, roundTripVars, last_blur>>
    /\ UNCHANGED <<nruns, pressed, cancelled, tab_index, sql>>

\* where execute_query goes after the call of exec_oracle_query
AfterCall(result) ==
    CASE result = "ok" -> "populate"
      [] result = "DatabaseError" -> "show_message"
      [] OTHER -> "done"

\* execute_query, lines 166-174: the call exec_oracle_query(..., fname=...).
\* Only DatabaseError is caught; every other exception leaves the worker.
W_Call(w) ==
    /\ Running
    /\ pc[w] = "call"
    /\ \E result \in CallOutcomes :
          IF AfterCall(result) = "done"
          THEN WorkerRaises(w, result)
          ELSE /\ pc' = [pc EXCEPT ![w] = AfterCall(result)]
               /\ outcome' = [outcome EXCEPT ![w] = result]
               /\ UNCHANGED crashed
    /\ UNCHANGED <<uiVars, files, suspendVars, load_result, sinkVars, roundTripVars, last_blur>>
    /\ UNCHANGED <<nruns, pressed, cancelled, tab_index, sql, conn_key>>

\* call_from_thread(self.toggle_button_state), the worker's last statement:
\* the UI loop flips the button of the tab that is active NOW, and the
\* worker returns
W_Toggle(w) ==
    /\ UiIdle
    /\ pc[w] = "toggle"
    /\ disabled' = toggle_button_state(disabled, get_tab_index)
    /\ pc' = [pc EXCEPT ![w] = "done"]
    /\ UNCHANGED <<config, active, text, table, selection, message, hidden, timers>>
    /\ UNCHANGED <<sysVars, nruns, pressed, cancelled, tab_index, sql, conn_key, outcome>>

\* ------------------------------------------------------------ tabs and text

\* the user types in the active tab's editor
Type ==
    /\ UiIdle
    /\ \E s \in Texts :
          /\ s # text[active]
          /\ text' = [text EXCEPT ![active] = s]
    /\ UNCHANGED <<config, active, disabled, table, selection, message, hidden, timers>>
    /\ UNCHANGED <<sysVars, workerVars>>

\* action_switch_to_tab followed by on_tabbed_content_tab_activated: pane t
\* becomes active, and when t's query file exists its contents become the
\* text of t's editor
SwitchTab(t) ==
    /\ UiIdle
    /\ t # active
    /\ active' = t
    /\ text' = IF files[get_query_file(config, t)] # Absent
               THEN [text EXCEPT ![t] = files[get_query_file(config, t)]]
               ELSE text
    /\ UNCHANGED <<config, disabled, table, selection, message, hidden, timers>>
    /\ UNCHANGED <<sysVars, workerVars>>

\* handle_blur taking the tab from get_tab_index() instead of the widget id
Blur_of_active(t) ==
    /\ UiIdle
    /\ files' = [files EXCEPT ![get_query_file(config, get_tab_index)] = text[get_tab_index]]
    /\ last_blur' = [tab |-> t, active |-> active, parity |-> 1 - last_blur.parity]
    /\ UNCHANGED <<uiVars, workerVars, suspendVars, crashed, load_result, sinkVars, roundTripVars>>

\* handle_blur for the editor of tab t, the widget that lost the focus: its
\* text is written to t's query file
Blur(t) ==
    /\ UiIdle
    /\ files' = [files EXCEPT ![get_query_file(config, t)] = text[t]]
    /\ last_blur' = [tab |-> t, active |-> active, parity |-> 1 - last_blur.parity]
    /\ UNCHANGED <<uiVars, workerVars, suspendVars, crashed, load_result, sinkVars, roundTripVars>>

\* the user picks an entry of the connection selector (or its blank prompt);
\* the options are those of the configuration the application started with
SelectConnection(k) ==
    /\ UiIdle
    /\ k # selection
    /\ selection' = k
    /\ UNCHANGED <<config, active, text, disabled, table, message, hidden, timers>>
    /\ UNCHANGED <<sysVars, workerVars>>

\* ----------------------------------------------------------------- messages

\* show_message can run: a timer slot is free
CanShow == timers < MaxTimers

\* show_message: sets the message, shows the widget and schedules hideit once
show_message(m) ==
    /\ message' = m
    /\ hidden' = FALSE
    /\ timers' = timers + 1

\* a hideit timer fires: the widget is hidden
TimerFire ==
    /\ UiIdle
    /\ timers > 0
    /\ hidden' = TRUE
    /\ timers' = timers - 1
    /\ UNCHANGED <<config, active, text, disabled, table, selection, message>>
    /\ UNCHANGED <<sysVars, workerVars>>

\* action_about
About ==
    /\ UiIdle
    /\ CanShow
    /\ show_message("Oracle SQL TUI by Carl Waldbieser 2025")
    /\ UNCHANGED <<config, active, text, disabled, table, selection>>
    /\ UNCHANGED <<sysVars, workerVars>>

\* -------------------------------------------------------------------- reload

\* action_reload_config: app.config = load_config(), then the message.
\* load_config raises when the file is missing or is not valid TOML; nothing
\* in action_reload_config catches it, so the assignment and the message are
\* skipped and the exception leaves the handler.
ReloadConfig ==
    /\ UiIdle
    /\ \/ \E cfg \in Configs :
             /\ CanShow
             /\ load_result' = "ok"
             /\ config' = cfg
             /\ show_message("Configuration reloaded.")
             /\ UNCHANGED crashed
       \/ /\ load_result' = "error"
          /\ crashed' = "action_reload_config"
          /\ UNCHANGED <<config, message, hidden, timers>>
    /\ UNCHANGED <<active, text, disabled, table, selection>>
    /\ UNCHANGED <<files, suspendVars, sinkVars, roundTripVars, last_blur, workerVars>>

\* ------------------------------------------------------------------- suspend

\* suspend(), lines 227-232: the driver leaves application mode and the
\* block under "with" starts (the driver is never None while a handler runs)
suspend_enter ==
    /\ driver_mode' = "stopped"
    /\ refreshed' = FALSE
    /\ suspend_exit' = "none"

\* suspend(), lines 233-234, reached only when the block returned
suspend_resume ==
    /\ driver_mode' = "application"
    /\ refreshed' = TRUE
    /\ suspend_exit' = "returned"

\* the block raised: the exception passes through the generator at the
\* yield, no statement after the "with redirect_stdout" block runs
suspend_raise ==
    /\ suspend_exit' = "raised"
    /\ UNCHANGED <<driver_mode, refreshed>>

\* action_edit, lines 118-127 up to the start of the editor: the active
\* tab's text is written to its query file and the terminal is handed over
EditBegin ==
    /\ UiIdle
    /\ ui_tab' = get_tab_index
    /\ ui_fname' = get_query_file(config, get_tab_index)
    /\ files' = [files EXCEPT ![get_query_file(config, get_tab_index)] = text[get_tab_index]]
    /\ suspend_enter
    /\ ui_pc' = "edit"
    /\ UNCHANGED <<uiVars, workerVars, crashed, load_result, sinkVars, roundTripVars, last_blur>>

\* action_edit without its last two lines: the file is not read back
EditEnd_no_reload ==
    /\ Running
    /\ ui_pc = "edit"
    /\ ui_pc' = "idle"
    /\ \E new \in Texts :
          /\ files' = [files EXCEPT ![ui_fname] = new]
          /\ suspend_resume
    /\ UNCHANGED <<uiVars, crashed>>
    /\ UNCHANGED <<ui_fname, ui_tab, workerVars, load_result, sinkVars, roundTripVars, last_blur>>

\* action_edit, the rest: the editor returns having left some text in the
\* file, suspend resumes and the file is read back into the editor; or
\* subprocess.call raises (the editor cannot be started)
EditEnd ==
    /\ Running
    /\ ui_pc = "edit"
    /\ ui_pc' = "idle"
    /\ \/ \E new \in Texts :
             /\ files' = [files EXCEPT ![ui_fname] = new]
             /\ text' = [text EXCEPT ![ui_tab] = new]
             /\ suspend_resume
             /\ UNCHANGED crashed
       \/ /\ suspend_raise
          /\ crashed' = "action_edit"
          /\ UNCHANGED <<files, text>>
    /\ UNCHANGED <<config, active, disabled, table, selection, message, hidden, timers>>
    /\ UNCHANGED <<ui_fname, ui_tab, workerVars, load_result, sinkVars, roundTripVars, last_blur>>

\* action_export_to_spreadsheet, up to the start of the spreadsheet program
ExportBegin ==
    /\ UiIdle
    /\ suspend_enter
    /\ ui_pc' = "export"
    /\ UNCHANGED <<uiVars, workerVars, files, ui_fname, ui_tab, crashed, load_result, sinkVars, roundTripVars, last_blur>>

\* action_export_to_spreadsheet, the rest: the program returns and suspend
\* resumes, or subprocess.call raises (the program cannot be started)
ExportEnd ==
    /\ Running
    /\ ui_pc = "export"
    /\ ui_pc' = "idle"
    /\ \/ /\ suspend_resume
          /\ UNCHANGED crashed
       \/ /\ suspend_raise
          /\ crashed' = "action_export_to_spreadsheet"
    /\ UNCHANGED <<uiVars, workerVars, files, ui_fname, ui_tab, load_result, sinkVars, roundTripVars, last_blur>>

\* -------------------------------------------------------------- result sink

\* the batch size set in exec_oracle_query
batch_size == 200

\* the smaller of two numbers: fetchmany returns at most num_rows rows
Min(a, b) == IF a < b THEN a ELSE b

\* no column after position n is named c
Last(n, columns, c) == \A m \in n + 1..Len(columns) : columns[m] # c

\* row2dict: the dictionary built by assigning d[column_name] = row[n] for
\* n in order, so a later column of the same name overwrites an earlier one
row2dict(columns, row) ==
    [c \in {columns[n] : n \in 1..Len(columns)} |->
        row[CHOOSE n \in 1..Len(columns) : columns[n] = c /\ Last(n, columns, c)]]

\* fetchrows with a loop that also stops at a batch shorter than num_rows,
\* before yielding it
fetchrows_short(columns, rows, num_rows) ==
    IF Len(rows) < num_rows
    THEN <<>>
    ELSE [n \in 1..Len(rows) |-> row2dict(columns, rows[n])]

\* fetchrows: fetchmany(num_rows) until a batch is empty, each row wrapped
RECURSIVE fetchrows(_, _, _)
fetchrows(columns, rows, num_rows) ==
    LET k == Min(num_rows, Len(rows))
    IN  IF k = 0
        THEN <<>>
        ELSE [n \in 1..k |-> row2dict(columns, rows[n])]
             \o fetchrows(columns, SubSeq(rows, k + 1, Len(rows)), num_rows)

\* csv.DictWriter.writerow: the dictionary's values in the order of field_names
writerow(field_names, d) == [n \in 1..Len(field_names) |-> d[field_names[n]]]

\* the lines exec_oracle_query writes for a cursor when it fetches num_rows
\* rows at a time: the header, then a line per row that fetchrows yields
WrittenLinesWith(cursor, num_rows) ==
    LET field_names == cursor.description
        dicts == fetchrows(cursor.description, cursor.rows, num_rows)
    IN  <<field_names>> \o [n \in 1..Len(dicts) |-> writerow(field_names, dicts[n])]

\* the lines exec_oracle_query writes for a cursor
WrittenLines(cursor) == WrittenLinesWith(cursor, batch_size)

\* exec_oracle_query on the results files rf.  The with statement connects
\* first and opens the file second: when the connection fails no file is
\* opened; otherwise /tmp/results.csv is opened for writing (created or
\* truncated).  When execute fails the file stays empty, when the first
\* fetchmany fails it holds the header, otherwise the header and the rows.
exec_oracle_query(rf, cursor, db) ==
    IF db = "connect_fails"
    THEN rf
    ELSE [rf EXCEPT ![exec_oracle_query_fname] =
            [exists |-> TRUE,
             lines |-> CASE db = "ok" -> WrittenLines(cursor)
                         [] db = "fetch_fails" -> <<cursor.description>>
                         [] OTHER -> <<>>]]

\* populate_table cannot read the ACTIVE tab's results file: the file does
\* not exist (open raises) or holds no header line (next(reader) raises)
populate_table_raises(cfg, act, rf) ==
    \/ ~rf[get_results_file(cfg, act)].exists
    \/ rf[get_results_file(cfg, act)].lines = <<>>

\* populate_table: the header of the ACTIVE tab's results file is added to the
\* ACTIVE tab's table as columns, the other lines as rows
populate_table(tbl, cfg, act, rf) ==
    LET lines == rf[get_results_file(cfg, act)].lines
    IN  [tbl EXCEPT ![act] = [columns |-> @.columns \o Head(lines),
                              rows |-> @.rows \o Tail(lines)]]

\* exec_oracle_query is run for a query started on the active tab, against a
\* database that fails before there is a cursor, or answers with a cursor
SinkCall ==
    /\ UiIdle
    /\ \/ \E db \in {"connect_fails", "execute_fails"} :
             /\ results' = exec_oracle_query(results, sink_cursor, db)
             /\ sink_result' = db
             /\ UNCHANGED sink_cursor
       \/ \E cursor \in Cursors, db \in {"fetch_fails", "ok"} :
             /\ results' = exec_oracle_query(results, cursor, db)
             /\ sink_result' = db
             /\ sink_cursor' = cursor
    /\ sink_tab' = get_tab_index
    /\ UNCHANGED <<uiVars, workerVars, files, suspendVars, crashed, load_result, roundTripVars, last_blur>>

\* ------------------------------------------- query text to file and back

\* Text files are opened with open(fname, "w") and open(fname, "r"): text
\* mode, newline=None, the encoding of the locale.  The model takes a POSIX
\* system (the paths are under /tmp) with a UTF-8 locale.

\* the longest text saved and loaded
MaxTextLen == 2

\* code points: LINE FEED, LATIN SMALL LETTER A, LATIN SMALL LETTER E WITH
\* ACUTE, CJK IDEOGRAPH 65E5
LF == 10
CR == 13
CodePoints == {LF, 97, 233, 26085}

\* the texts an editor can hold: a TextArea joins its lines with LINE FEED
RtTexts == UNION {[1..n -> CodePoints] : n \in 0..MaxTextLen}

\* os.linesep
os_linesep == <<LF>>

\* an encoder that writes a question mark for what is not ASCII
encode_replace(cp) == IF cp < 128 THEN <<cp>> ELSE <<63>>

\* the UTF-8 bytes of one code point below 65536
utf8(cp) ==
    IF cp < 128 THEN <<cp>>
    ELSE IF cp < 2048 THEN <<192 + (cp \div 64), 128 + (cp % 64)>>
    ELSE <<224 + (cp \div 4096), 128 + ((cp \div 64) % 64), 128 + (cp % 64)>>

\* writing in text mode with newline=None: every LINE FEED becomes os.linesep
RECURSIVE translate_out(_)
translate_out(t) ==
    IF t = <<>> THEN <<>>
    ELSE (IF Head(t) = LF THEN os_linesep ELSE <<Head(t)>>) \o translate_out(Tail(t))

\* str.encode
RECURSIVE encode(_)
encode(t) == IF t = <<>> THEN <<>> ELSE utf8(Head(t)) \o encode(Tail(t))

\* f.write(text) into a file opened with "w": the bytes the file then holds
write_text(t) == encode(translate_out(t))

\* a continuation byte
IsCont(b) == 128 <= b /\ b < 192

\* stands for the UnicodeDecodeError raised for malformed bytes
DecodeError == <<-1>>

\* bytes.decode: the code points, or DecodeError for malformed bytes
RECURSIVE decode(_)
decode(bs) ==
    IF bs = <<>> THEN <<>>
    ELSE LET b == Head(bs)
             n == IF b < 128 THEN 1
                  ELSE IF 192 <= b /\ b < 224 THEN 2
                  ELSE IF 224 <= b /\ b < 240 THEN 3
                  ELSE 0
         IN  IF n = 0 \/ Len(bs) < n \/ \E i \in 2..n : ~IsCont(bs[i])
             THEN DecodeError
             ELSE LET cp == CASE n = 1 -> b
                              [] n = 2 -> (b - 192) * 64 + (bs[2] - 128)
                              [] n = 3 -> (b - 224) * 4096 + (bs[2] - 128) * 64 + (bs[3] - 128)
                      rest == decode(SubSeq(bs, n + 1, Len(bs)))
                  IN  IF rest = DecodeError THEN rest ELSE <<cp>> \o rest

\* reading in text mode with newline=None: CR LF and CR become LINE FEED
RECURSIVE translate_in(_)
translate_in(t) ==
    IF t = <<>> THEN <<>>
    ELSE IF Head(t) = CR
         THEN IF Len(t) > 1 /\ t[2] = LF
              THEN <<LF>> \o translate_in(SubSeq(t, 3, Len(t)))
              ELSE <<LF>> \o translate_in(Tail(t))
         ELSE <<Head(t)>> \o translate_in(Tail(t))

\* f.read() of a file opened with "r": the text of the bytes
read_text(bs) ==
    IF decode(bs) = DecodeError THEN DecodeError ELSE translate_in(decode(bs))

\* handle_blur (and the first lines of action_edit): the editor's text is
\* written to the tab's query file
SaveText ==
    /\ rt_pc = "typed"
    /\ rt_files' = [rt_files EXCEPT ![get_query_file(config, rt_tab)] =
                                       [exists |-> TRUE, bytes |-> write_text(rt_text)]]
    /\ rt_pc' = "saved"
    /\ UNCHANGED <<rt_tab, rt_text, rt_loaded>>
    /\ UNCHANGED <<uiVars, workerVars, files, suspendVars, crashed, load_result, sinkVars, last_blur>>

\* on_tabbed_content_tab_activated: the tab's query file, which exists, is
\* read into the editor
LoadText ==
    /\ rt_pc = "saved"
    /\ rt_files[get_query_file(config, rt_tab)].exists
    /\ rt_loaded' = read_text(rt_files[get_query_file(config, rt_tab)].bytes)
    /\ rt_pc' = "loaded"
    /\ UNCHANGED <<rt_tab, rt_text, rt_files>>
    /\ UNCHANGED <<uiVars, workerVars, files, suspendVars, crashed, load_result, sinkVars, last_blur>>

\* ------------------------------------------------------------ specifications

\* The execution core: the Execute button, the execute_query workers, and
\* the handlers that change what a worker reads (the active tab, the editor
\* text, the selected connection, the configuration).
Next ==
    \/ Press
    \/ \E w \in Runs : W_Read(w) \/ W_Resolve(w) \/ W_Call(w) \/ W_Toggle(w)
    \/ Type
    \/ \E t \in Tabs : SwitchTab(t)
    \/ \E k \in ConnKeys \cup {Blank} : SelectConnection(k)
    \/ ReloadConfig
    \/ TimerFire

Spec == Init /\ [][Next]_vars

\* The execution core used from one tab only: the behaviours of Spec in which
\* the user never activates another tab.
FixedTabNext ==
    \/ Press
    \/ \E w \in Runs : W_Read(w) \/ W_Resolve(w) \/ W_Call(w) \/ W_Toggle(w)
    \/ Type
    \/ \E k \in ConnKeys \cup {Blank} : SelectConnection(k)
    \/ ReloadConfig
    \/ TimerFire

FixedTabSpec == Init /\ [][FixedTabNext]_vars

\* The session side: query text and its scratch files, the suspend()
\* protocol of the editor and spreadsheet actions, messages, reload.
SessionNext ==
    \/ Type
    \/ \E t \in Tabs : SwitchTab(t) \/ Blur(t)
    \/ About
    \/ TimerFire
    \/ ReloadConfig
    \/ EditBegin
    \/ EditEnd
    \/ ExportBegin
    \/ ExportEnd

SessionSpec == Init /\ [][SessionNext]_vars

\* The result sink alone: exec_oracle_query applied to any cursor and any
\* answer of the database, for a query of whichever tab is active under
\* whichever configuration is loaded.
SinkNext ==
    \/ SinkCall
    \/ \E t \in Tabs : SwitchTab(t)
    \/ ReloadConfig

SinkSpec == Init /\ [][SinkNext]_vars

\* exec_oracle_query alone, called again and again with any cursor and any
\* answer of the database.
FetchNext == SinkCall

FetchSpec == Init /\ [][FetchNext]_vars

\* Tabs and their query files under reloads of the configuration: the user
\* moves between the tabs, whose editors are saved when they lose the focus,
\* and reloads the configuration, but types nothing.
ReloadNext ==
    \/ \E t \in Tabs : SwitchTab(t) \/ Blur(t)
    \/ ReloadConfig
    \/ TimerFire

ReloadSpec == Init /\ [][ReloadNext]_vars

\* Saving and loading alone: any text of any tab is saved and then loaded.
RoundTripInit ==
    /\ AppInit
    /\ rt_tab \in Tabs
    /\ rt_text \in RtTexts
    /\ rt_files = [p \in QueryPaths |-> NoBytes]
    /\ rt_loaded = <<>>
    /\ rt_pc = "typed"
    /\ last_blur = NoBlur

RoundTripNext ==
    \/ SaveText
    \/ LoadText

RoundTripSpec == RoundTripInit /\ [][RoundTripNext]_vars

\* --------------------------------------------------------------------- claims

\* worker w takes a step of execute_query
WorkerStep(w) == pc[w] # "unborn" /\ pc'[w] # pc[w]

\* worker w ends in this step
WorkerEnds(w) == pc[w] # "done" /\ pc'[w] = "done"

\* C1: once a later run has been started while run w was in flight (w is
\* cancelled), no step of w changes a button, a table or the message widget.
C1_SupersededRunMutatesNothing ==
    [][\A w \in Runs :
          (cancelled[w] /\ WorkerStep(w)) => UNCHANGED <<disabled, table, message, hidden>>]_vars

\* C2: whenever a run ends, on whatever outcome, the Execute button of the tab
\* it was started from is enabled (checked with the active tab held fixed, so
\* that the tab a run is started from is also the tab it toggles).
C2_EveryRunEndsReenabled ==
    [][\A w \in Runs : WorkerEnds(w) => ~disabled'[pressed[w]]]_vars

\* C3: a run started from tab T reads T's query text, re-enables T's button
\* when it completes, and changes no other tab's button or table.
C3_RunStaysBoundToItsTab ==
    [][\A w \in Runs :
          WorkerStep(w) =>
             /\ pc[w] = "start" => (tab_index'[w] = pressed[w] /\ sql'[w] = text[pressed[w]])
             /\ pc[w] = "toggle" => ~disabled'[pressed[w]]
             /\ \A t \in Tabs \ {pressed[w]} :
                   disabled'[t] = disabled[t] /\ table'[t] = table[t]]_vars

\* C4: in every state, a tab's Execute button is disabled exactly when a run
\* started from that tab is in flight.
C4_DisabledIffRunning ==
    \A t \in Tabs : disabled[t] <=> (\E w \in Runs : pressed[w] = t /\ InFlight(w))

\* C5: a run requested while no connection is selected changes no button: not
\* in the step that handles the press, nor in a step of the worker that found
\* no connection.
C5_NoConnectionRunIsNoOp ==
    [][/\ (selection = Blank /\ nruns' = nruns + 1) => disabled' = disabled
       /\ \A w \in Runs :
             (WorkerStep(w) /\ outcome'[w] = "no_connection") => disabled' = disabled]_vars

\* C6: whenever a suspend() block has been left, by return or by exception,
\* the driver is in application mode and a redraw has been requested.
C6_SuspendAlwaysResumes ==
    suspend_exit \in {"returned", "raised"} => (driver_mode = "application" /\ refreshed)

\* C7: a reload whose load_config fails keeps the configuration, shows an
\* error message and lets no exception leave the action.
C7_FailedReloadIsReported ==
    [][(load_result' = "error" /\ crashed = "no") =>
          /\ config' = config
          /\ crashed' = "no"
          /\ ~hidden'
          /\ message' \notin {"Application started.", "Configuration reloaded.",
                              "Oracle SQL TUI by Carl Waldbieser 2025"}]_vars

\* C8: no exception leaves the worker: a run ends because no connection was
\* selected, because the query succeeded, or through the DatabaseError handler.
C8_NoExceptionLeavesWorker ==
    \A w \in Runs : pc[w] = "done" => outcome[w] \in {"no_connection", "ok", "DatabaseError"}

\* C9: after exec_oracle_query has succeeded for a query of tab T, T's results
\* file holds the header and rows it wrote, and populate_table for T shows them.
C9_RowsWrittenToTabsResultsFile ==
    sink_result = "ok" =>
       /\ results[get_results_file(config, sink_tab)] =
             [exists |-> TRUE, lines |-> WrittenLines(sink_cursor)]
       /\ ~populate_table_raises(config, sink_tab, results)

\* the file exec_oracle_query writes, as it is now
SinkFile == results[exec_oracle_query_fname]

\* the column names are pairwise different
DistinctNames(columns) ==
    \A m, n \in 1..Len(columns) : columns[m] = columns[n] => m = n

\* C11: after exec_oracle_query has succeeded, the file holds the cursor's
\* column names as its header and then one line per row of the cursor, in
\* the cursor's order (the row itself when the column names are distinct);
\* fetching in batches of any other size yields the same lines.
C11_HeaderAndOneLinePerRow ==
    sink_result = "ok" =>
       /\ SinkFile.exists
       /\ Len(SinkFile.lines) = 1 + Len(sink_cursor.rows)
       /\ SinkFile.lines[1] = sink_cursor.description
       /\ \A n \in 1..Len(sink_cursor.rows) :
             /\ SinkFile.lines[n + 1] =
                   writerow(sink_cursor.description,
                            row2dict(sink_cursor.description, sink_cursor.rows[n]))
             /\ DistinctNames(sink_cursor.description) =>
                   SinkFile.lines[n + 1] = sink_cursor.rows[n]
       /\ \A b \in 1..MaxRows + 1 : WrittenLinesWith(sink_cursor, b) = SinkFile.lines

\* C11 witness: a query with at least two rows has been written, so that a
\* batch size of 1 splits it, 2 divides it and 3 exceeds it
C11_Witness ==
    /\ sink_result = "ok"
    /\ Len(sink_cursor.rows) >= 2
    /\ Len(SinkFile.lines) = 1 + Len(sink_cursor.rows)

\* C18: after exec_oracle_query has succeeded, every data line equals the
\* row tuple it was written for, position by position.
C18_LineEqualsRow ==
    sink_result = "ok" =>
       \A n \in 1..Len(sink_cursor.rows) : SinkFile.lines[n + 1] = sink_cursor.rows[n]

\* the rows the most recent execution has fetched
RowsOfLastExecution == IF sink_result = "ok" THEN sink_cursor.rows ELSE <<>>

\* C19: once an execution has begun, the file is empty or holds a header
\* line followed only by rows of that most recent execution, however the
\* execution ended: no data line of an earlier execution remains.
C19_NoRowsOfEarlierExecution ==
    sink_result # "none" =>
       \/ SinkFile.lines = <<>>
       \/ /\ SinkFile.lines[1] \in ColumnLists
          /\ Len(SinkFile.lines) <= 1 + Len(RowsOfLastExecution)

\* C12: a text saved to a tab's query file and then loaded from it is the
\* text that was saved.
C12_SaveThenLoadIsIdentity ==
    rt_pc = "loaded" => rt_loaded = rt_text

\* C12 witness: a text with a line break and a character outside ASCII has
\* been saved as UTF-8 bytes and loaded
C12_Witness ==
    /\ rt_pc = "loaded"
    /\ rt_text = <<233, LF>>
    /\ rt_files[get_query_file(config, rt_tab)].bytes = <<195, 169, 10>>
    /\ rt_loaded = rt_text

\* C13: activating tab T sets T's editor text to the contents of T's query
\* file when the file exists and to the empty text when it does not.
C13_ActivationLoadsFileOrEmpty ==
    [][active' # active =>
          text'[active'] = IF files[get_query_file(config, active')] # Absent
                           THEN files[get_query_file(config, active')]
                           ELSE ""]_vars

\* the blur of tab t's editor is handled in this step
BlurHandled(t) == last_blur' # last_blur /\ last_blur'.tab = t

\* C14: when the blur of tab T's editor is handled, T's query file becomes
\* exactly T's editor text; no other file and no editor text changes,
\* whichever tab is active at that moment.
C14_BlurSavesOnlyItsTab ==
    [][\A t \in Tabs :
          BlurHandled(t) =>
             /\ files' = [files EXCEPT ![get_query_file(config, t)] = text[t]]
             /\ text' = text]_vars

\* C14 witness: the blur of an editor holding text has been handled while
\* another tab, with another text, was active, and its file holds its text
C14_Witness ==
    /\ last_blur.tab \in Tabs
    /\ last_blur.active \in Tabs \ {last_blur.tab}
    /\ active = last_blur.active
    /\ text[last_blur.tab] = "q1"
    /\ text[active] = ""
    /\ files[get_query_file(config, last_blur.tab)] = "q1"
    /\ files[get_query_file(config, active)] = Absent

\* C17: while the external editor runs, the terminal is suspended and the
\* active tab's text has already been saved to its query file; when
\* action_edit returns, the terminal has been resumed and the tab's editor
\* text is what the file then holds.
C17_EditSavesSuspendsResumesReloads ==
    [][/\ ui_pc' = "edit" =>
             /\ driver_mode' = "stopped"
             /\ ui_tab' = active'
             /\ ui_fname' = get_query_file(config', active')
             /\ files'[ui_fname'] = text'[ui_tab']
       /\ (ui_pc = "edit" /\ ui_pc' = "idle" /\ crashed' = "no") =>
             /\ driver_mode' = "application"
             /\ refreshed'
             /\ text'[ui_tab] = files'[ui_fname]]_vars

\* C17 witness: action_edit has returned after the editor replaced an empty
\* query by a text, which the tab's editor now shows
C17_Witness ==
    /\ ui_pc = "idle"
    /\ ui_tab = active
    /\ suspend_exit = "returned"
    /\ driver_mode = "application"
    /\ ui_fname = get_query_file(config, ui_tab)
    /\ files[ui_fname] = "q1"
    /\ text[ui_tab] = "q1"
    /\ last_blur = NoBlur
    /\ config = StartConfig
    /\ active = 2

\* C20: the message widget is hidden only by the hide timer of the message
\* it is showing, that is, by the timer of the latest show_message: when the
\* widget becomes hidden no timer of a later show_message is still pending.
C20_OnlyOwnTimerHides ==
    [][(~hidden /\ hidden') => timers = 1]_vars

=============================================================================
